---- MODULE Spec2Model ----
(***************************************************************************)
(* A model of main.py of the esportligaen scraper: the on-disk response    *)
(* cache in front of the HTTP API (get_with_cache), the extraction of team *)
(* and match payloads (parse_team_data, parse_match_data), the outcome     *)
(* queries of MatchData and the aggregation pass of the __main__ script.   *)
(*                                                                         *)
(* Python values are represented as follows.  None is the integer None     *)
(* where the code expects a number and the string NoneStr where it expects *)
(* a string.  A JSON object is a record whose "missing" field is the set   *)
(* of keys the object lacks; the value stored under a missing key is a     *)
(* fixed default that no operator reads.  A call that raises an exception  *)
(* is a result record with raised = TRUE.  Wall-clock time is counted in   *)
(* whole days, the unit of the freshness window of get_with_cache.         *)
(***************************************************************************)
EXTENDS Integers, Sequences, FiniteSets, TLC

\* ------------------------------------------------------------ bounds
MaxMatches == 2      \* match ids 1..MaxMatches can be listed for the team
MaxClock   == 3      \* the clock stops advancing at this day

\* ------------------------------------------------------------ program constants
OLDBOYS_SEASON_4_ID == 103
team_id             == 2244
CLOSE_GAME_START    == 12
FRESHNESS_DAYS      == 1
HTTP_OK             == 200

None    == -1        \* what jmespath.search returns for an absent number
NoneStr == "None"    \* the same for an absent string

\* ------------------------------------------------------------ upstream data
OtherSeason == OLDBOYS_SEASON_4_ID - 1     \* a tournamentId of another season
OtherTeams  == <<99, 7>>
Opponent    == OtherTeams[1]
Stranger    == OtherTeams[2]
Teams       == {team_id, Opponent, Stranger}
Maps        == {"Ascent", "Bind"}
MapKeys     == Maps \cup {NoneStr}
Times       == {1, 2}
MatchIds    == 1..MaxMatches
ScorePairs  == {<<16, 11>>, <<16, 12>>, <<16, 13>>, <<12, 12>>, <<11, 11>>}
Statuses    == {HTTP_OK, 500}

MatchFields == {"id", "time", "mapName", "matchGroup", "name0", "name1",
                "team_id0", "team_id1", "score0", "score1"}
TeamFields  == {"id", "name", "matches"}

\* A match payload: resultLocked is "true", "false", "null" or "absent" (the
\* key is not in the object).
MatchPayload(id, locked, missing, time, map, ids, scores) ==
    [kind |-> "match", resultLocked |-> locked, missing |-> missing, id |-> id,
     time |-> time, mapName |-> map, matchGroup |-> id,
     names |-> <<"Alpha", "Bravo11">>, team_ids |-> ids, scores |-> scores]

WellFormed(id) ==
    { MatchPayload(id, "true", {}, tm, mp, ids, sc) :
        tm \in Times, mp \in Maps,
        ids \in {<<team_id, Opponent>>, <<Opponent, team_id>>}, sc \in ScorePairs }

\* matches the queried team did not play in
Foreign(id) ==
    { MatchPayload(id, "true", {}, 1, "Ascent", <<Opponent, Stranger>>, sc) :
        sc \in {<<16, 11>>, <<12, 12>>} }

\* a finalized match lacking one field
Malformed(id) ==
    { MatchPayload(id, "true", {f}, 1, "Ascent", <<team_id, Opponent>>, <<16, 12>>) :
        f \in MatchFields }

\* not finalized: with every other field, with none of them, with a null flag
Unplayed(id) ==
    { MatchPayload(id, "false", {}, 1, "Ascent", <<team_id, Opponent>>, <<0, 0>>),
      MatchPayload(id, "false", MatchFields, 1, "Ascent", <<team_id, Opponent>>, <<0, 0>>),
      MatchPayload(id, "null", {}, 1, "Ascent", <<team_id, Opponent>>, <<0, 0>>) }

Unflagged(id) ==
    { MatchPayload(id, "absent", {}, 1, "Ascent", <<team_id, Opponent>>, <<16, 12>>) }

MatchPayloads(id) ==
    WellFormed(id) \cup Foreign(id) \cup Malformed(id) \cup Unplayed(id) \cup Unflagged(id)

\* The team payload: "matches" lists [id, tournamentId] entries.
TeamPayload(missing, matches) ==
    [kind |-> "team", missing |-> missing, id |-> team_id, name |-> "Alpha",
     matches |-> matches]

Entry(id, tournamentId) == [id |-> id, tournamentId |-> tournamentId]

\* the first n match ids, all of the configured season
Listing(n) == [k \in 1..n |-> Entry(k, OLDBOYS_SEASON_4_ID)]

\* the listings the upstream serves: every prefix of the ids, the full list in
\* reverse, and the full list with its last match moved to another season
Listings ==
    { Listing(n) : n \in 0..MaxMatches }
    \cup { [k \in 1..MaxMatches |-> Entry(MaxMatches + 1 - k, OLDBOYS_SEASON_4_ID)] }
    \cup { [k \in 1..MaxMatches |->
              Entry(k, IF k = MaxMatches THEN OtherSeason ELSE OLDBOYS_SEASON_4_ID)] }

TeamPayloads ==
    { TeamPayload({}, l) : l \in Listings }
    \cup { TeamPayload({f}, Listing(1)) : f \in TeamFields }

\* A response body that is not JSON (an error page).
NotJson == [kind |-> "notjson"]

\* A response body: a JSON document, or not, followed by `pad` blanks.
Body(doc, pad) == [doc |-> doc, pad |-> pad]

\* ------------------------------------------------------------ cache gateway
TeamPath      == <<"team", team_id>>
MatchPath(id) == <<"match", id>>
Paths         == {TeamPath} \cup { MatchPath(id) : id \in MatchIds }

NoFile           == [exists |-> FALSE]
File(content, t) == [exists |-> TRUE, content |-> content, mtime |-> t]

NoValue == [kind |-> "novalue"]

\* json.load / Response.json: the document of the body, whatever its padding;
\* raises when the body is not JSON
IsJson(body)    == body.doc.kind # "notjson"
ParseJson(body) == body.doc

\* mutants of Fresh: the comparison turned round, and the window closed at
\* its end
FreshInverted(diff)  == diff > FRESHNESS_DAYS
FreshInclusive(diff) == diff <= FRESHNESS_DAYS

\* line 90: diff < timedelta(days=1)
Fresh(diff) == diff < FRESHNESS_DAYS

\* mutant of GetWithCache: the body is written before the status is asserted
GetWithCacheWriteFirst(files, clock, path, resp) ==
    IF files[path].exists /\ Fresh(clock - files[path].mtime)
    THEN [files    |-> files,
          requests |-> 0,
          raised   |-> ~IsJson(files[path].content),
          error    |-> IF IsJson(files[path].content) THEN "" ELSE "json",
          value    |-> IF IsJson(files[path].content)
                       THEN ParseJson(files[path].content) ELSE NoValue]
    ELSE IF resp.status_code # HTTP_OK
    THEN [files |-> [files EXCEPT ![path] = File(resp.content, clock)],
          requests |-> 1, raised |-> TRUE, error |-> "status", value |-> NoValue]
    ELSE [files    |-> [files EXCEPT ![path] = File(resp.content, clock)],
          requests |-> 1,
          raised   |-> ~IsJson(resp.content),
          error    |-> IF IsJson(resp.content) THEN "" ELSE "json",
          value    |-> IF IsJson(resp.content) THEN ParseJson(resp.content) ELSE NoValue]

\* get_with_cache(path, url) with the files `files`, at time `clock`, where the
\* upstream would answer `resp` to a GET of url.  requests counts the GETs made;
\* error says what was raised: "status" by the assert of line 94, "json" by
\* json.load or Response.json.
GetWithCache(files, clock, path, resp) ==
    IF files[path].exists /\ Fresh(clock - files[path].mtime)
    THEN [files    |-> files,
          requests |-> 0,
          raised   |-> ~IsJson(files[path].content),
          error    |-> IF IsJson(files[path].content) THEN "" ELSE "json",
          value    |-> IF IsJson(files[path].content)
                       THEN ParseJson(files[path].content) ELSE NoValue]
    ELSE IF resp.status_code # HTTP_OK
    THEN [files |-> files, requests |-> 1, raised |-> TRUE, error |-> "status",
          value |-> NoValue]
    ELSE [files    |-> [files EXCEPT ![path] = File(resp.content, clock)],
          requests |-> 1,
          raised   |-> ~IsJson(resp.content),
          error    |-> IF IsJson(resp.content) THEN "" ELSE "json",
          value    |-> IF IsJson(resp.content) THEN ParseJson(resp.content) ELSE NoValue]

Response(status, content) == [status_code |-> status, content |-> content]

\* ------------------------------------------------------------ record extractor
\* jmespath.search(key, obj) for a number and for a string: None when absent
SearchInt(obj, key, v) == IF key \in obj.missing THEN None ELSE v
SearchStr(obj, key, v) == IF key \in obj.missing THEN NoneStr ELSE v

\* jmespath "matches[?tournamentId==`103`].id"
SeasonMatchIds(matches) ==
    LET kept == SelectSeq(matches, LAMBDA e : e.tournamentId = OLDBOYS_SEASON_4_ID)
    IN  [k \in 1..Len(kept) |-> kept[k].id]

\* parse_team_data: the tuple (id, name, match_ids); match_ids_none says that
\* match_ids is None (jmespath found no "matches")
parse_team_data(team_data) ==
    [id             |-> SearchInt(team_data, "id", team_data.id),
     name           |-> SearchStr(team_data, "name", team_data.name),
     match_ids      |-> IF "matches" \in team_data.missing THEN <<>>
                        ELSE SeasonMatchIds(team_data.matches),
     match_ids_none |-> "matches" \in team_data.missing]

\* a jmespath projection "MatchTeams[*].x": the values present, in payload order
Projection(obj, key0, key1, pair) ==
    (IF key0 \in obj.missing THEN <<>> ELSE <<pair[1]>>)
    \o (IF key1 \in obj.missing THEN <<>> ELSE <<pair[2]>>)

MatchData(id, time, map, match_group, team_names, team_ids, scores) ==
    [id |-> id, time |-> time, map |-> map, match_group |-> match_group,
     team_names |-> team_names, team_ids |-> team_ids, scores |-> scores]

NoData == [kind |-> "nodata"]

\* line 59: not match_data["resultLocked"]
NotLocked(match_data) == match_data.resultLocked \in {"false", "null"}

\* mutant of parse_match_data: the fields are extracted before the flag is
\* looked at
parse_match_data_eager(match_data) ==
    IF match_data.resultLocked = "absent"
    THEN [raised |-> TRUE, none |-> FALSE, data |-> NoData]
    ELSE IF "time" \in match_data.missing
    THEN [raised |-> TRUE, none |-> FALSE, data |-> NoData]
    ELSE IF NotLocked(match_data)
    THEN [raised |-> FALSE, none |-> TRUE, data |-> NoData]
    ELSE [raised |-> FALSE, none |-> FALSE,
          data |-> MatchData(
              SearchInt(match_data, "id", match_data.id),
              match_data.time,
              SearchStr(match_data, "mapName", match_data.mapName),
              SearchInt(match_data, "matchGroup", match_data.matchGroup),
              Projection(match_data, "name0", "name1", match_data.names),
              Projection(match_data, "team_id0", "team_id1", match_data.team_ids),
              Projection(match_data, "score0", "score1", match_data.scores))]

\* parse_match_data: raised (a KeyError for the flag, a TypeError from
\* isoparse(None)), or none (the function returned None), or the MatchData
parse_match_data(match_data) ==
    IF match_data.resultLocked = "absent"
    THEN [raised |-> TRUE, none |-> FALSE, data |-> NoData]
    ELSE IF NotLocked(match_data)
    THEN [raised |-> FALSE, none |-> TRUE, data |-> NoData]
    ELSE IF "time" \in match_data.missing
    THEN [raised |-> TRUE, none |-> FALSE, data |-> NoData]
    ELSE [raised |-> FALSE, none |-> FALSE,
          data |-> MatchData(
              SearchInt(match_data, "id", match_data.id),
              match_data.time,
              SearchStr(match_data, "mapName", match_data.mapName),
              SearchInt(match_data, "matchGroup", match_data.matchGroup),
              Projection(match_data, "name0", "name1", match_data.names),
              Projection(match_data, "team_id0", "team_id1", match_data.team_ids),
              Projection(match_data, "score0", "score1", match_data.scores))]

\* ------------------------------------------------------------ match model
Member(x, seq) == \E k \in 1..Len(seq) : seq[k] = x

\* error: "precondition" for the AssertionError of lines 36 and 40, "index" for
\* an IndexError
Raise(error) == [raised |-> TRUE, error |-> error, value |-> None]
Return(v)    == [raised |-> FALSE, error |-> "", value |-> v]

\* MatchData.score_for: the assert, then the positional lookup (an IndexError
\* when the tuple is too short)
score_for(self, t) ==
    IF ~Member(t, self.team_ids) THEN Raise("precondition")
    ELSE IF t = self.team_ids[1]
         THEN (IF Len(self.scores) < 1 THEN Raise("index") ELSE Return(self.scores[1]))
         ELSE (IF Len(self.scores) < 2 THEN Raise("index") ELSE Return(self.scores[2]))

\* mutant of score_for_other: the indices of score_for, not swapped
score_for_other_unswapped(self, t) == score_for(self, t)

\* MatchData.score_for_other
score_for_other(self, t) ==
    IF ~Member(t, self.team_ids) THEN Raise("precondition")
    ELSE IF t = self.team_ids[1]
         THEN (IF Len(self.scores) < 2 THEN Raise("index") ELSE Return(self.scores[2]))
         ELSE (IF Len(self.scores) < 1 THEN Raise("index") ELSE Return(self.scores[1]))

RaiseStr(error) == [raised |-> TRUE, error |-> error, value |-> NoneStr]

\* MatchData.result_for
result_for(self, t) ==
    IF Len(self.scores) < 2 THEN RaiseStr("index")
    ELSE IF self.scores[1] = self.scores[2] THEN Return("DRAW")
    ELSE IF score_for(self, t).raised THEN RaiseStr(score_for(self, t).error)
    ELSE IF score_for_other(self, t).raised THEN RaiseStr(score_for_other(self, t).error)
    ELSE IF score_for(self, t).value > score_for_other(self, t).value
         THEN Return("WIN") ELSE Return("LOSS")

\* what MatchData.format_for raises, "" when it returns the line: a name, a
\* score or the result cannot be had
format_for_error(self, t) ==
    IF Len(self.team_names) < 2 \/ Len(self.scores) < 2 THEN "index"
    ELSE result_for(self, t).error

\* ------------------------------------------------------------ state
VARIABLES
    cache,               \* the cache folder: path -> NoFile or File
    now,                 \* the wall clock, in days
    call,                \* the last get_with_cache call made by the cache driver
    returned,            \* path -> what the last call for the path returned
    pc,                  \* where the __main__ script stands
    fault,               \* what made the script abort, "" so far
    name,                \* the team name of line 118
    match_ids,           \* the match ids of line 118
    i,                   \* the fetch loop: index into match_ids
    fetched,             \* the match payloads get_match_data received, in order
    match_datas,
    longest_team_name,
    output,              \* what has been printed
    j,                   \* the aggregation loop: index into match_datas
    played, picks, wins, draws, losses, close_games, close_games_per_map,
    query                \* a MatchData, a team id and the outcome queries made

gatewayVars == <<cache, now>>
driverVars  == <<call, returned>>
statVars    == <<played, picks, wins, draws, losses, close_games, close_games_per_map>>
runVars     == <<pc, fault, name, match_ids, i, fetched, match_datas, longest_team_name,
                 output, j, statVars>>
vars        == <<gatewayVars, driverVars, runVars, query>>

NoCall == [made |-> FALSE]
NoQuery == [made |-> FALSE]

EmptyCache == [p \in Paths |-> NoFile]
Zero       == [mp \in MapKeys |-> 0]
NoIds      == [mp \in MapKeys |-> <<>>]

\* lines 146-153
InitStats ==
    /\ played = Zero /\ picks = Zero
    /\ wins = NoIds /\ draws = NoIds /\ losses = NoIds
    /\ close_games = <<>> /\ close_games_per_map = Zero

InitRun(at) ==
    /\ pc = at /\ fault = "" /\ name = NoneStr /\ match_ids = <<>> /\ i = 1
    /\ fetched = <<>> /\ match_datas = <<>> /\ longest_team_name = 0
    /\ output = <<>> /\ j = 1
    /\ InitStats

\* ------------------------------------------------------------ the script
TeamResponses ==
    { Response(HTTP_OK, Body(p, 0)) : p \in TeamPayloads \cup {NotJson} }
    \cup { Response(st, Body(NotJson, 0)) : st \in Statuses \ {HTTP_OK} }

MatchResponses(id) ==
    { Response(HTTP_OK, Body(p, 0)) : p \in MatchPayloads(id) \cup {NotJson} }
    \cup { Response(st, Body(NotJson, 0)) : st \in Statuses \ {HTTP_OK} }

\* an uncaught exception ends the script
Abort(error) == pc' = "aborted" /\ fault' = error

Max(a, b) == IF a > b THEN a ELSE b

\* lines 117-129: get_team_data, the header, and the start of the fetch loop
\* (which raises a TypeError when match_ids is None)
GetTeam ==
    /\ pc = "start"
    /\ \E resp \in TeamResponses :
         LET g  == GetWithCache(cache, now, TeamPath, resp)
             td == parse_team_data(g.value)
         IN  /\ cache' = g.files
             /\ IF g.raised
                THEN /\ Abort(g.error)
                     /\ UNCHANGED <<name, match_ids, output>>
                ELSE /\ name' = td.name
                     /\ match_ids' = td.match_ids
                     /\ output' = output \o <<"name", "matches_title">>
                     /\ IF td.match_ids_none
                        THEN Abort("iteration")
                        ELSE pc' = "fetch" /\ UNCHANGED fault
    /\ UNCHANGED <<now, driverVars, i, fetched, match_datas, longest_team_name, j,
                   statVars, query>>

\* lines 129-137: one iteration of the fetch loop
FetchMatch ==
    /\ pc = "fetch"
    /\ i <= Len(match_ids)
    /\ \E resp \in MatchResponses(match_ids[i]) :
         LET g == GetWithCache(cache, now, MatchPath(match_ids[i]), resp)
             d == parse_match_data(g.value)
         IN  /\ cache' = g.files
             /\ IF g.raised
                THEN /\ Abort(g.error)
                     /\ UNCHANGED <<i, fetched, match_datas, longest_team_name>>
                ELSE /\ fetched' = Append(fetched, g.value)
                     /\ IF d.raised
                        THEN /\ Abort("extraction")
                             /\ UNCHANGED <<i, match_datas, longest_team_name>>
                        ELSE IF d.none
                        THEN /\ i' = i + 1
                             /\ UNCHANGED <<pc, fault, match_datas, longest_team_name>>
                        ELSE /\ match_datas' = Append(match_datas, d.data)
                             /\ IF Len(d.data.team_names) < 2
                                THEN /\ Abort("index")
                                     /\ UNCHANGED <<i, longest_team_name>>
                                ELSE /\ longest_team_name' =
                                          Max(longest_team_name,
                                              Max(Len(d.data.team_names[1]),
                                                  Len(d.data.team_names[2])))
                                     /\ i' = i + 1
                                     /\ UNCHANGED <<pc, fault>>
    /\ UNCHANGED <<now, driverVars, name, match_ids, output, j, statVars, query>>

\* list.sort(key=lambda d: d.time): a stable insertion sort
RECURSIVE Insert(_, _)
Insert(sorted, d) ==
    IF sorted = <<>> THEN <<d>>
    ELSE IF sorted[Len(sorted)].time <= d.time THEN Append(sorted, d)
    ELSE Append(Insert(SubSeq(sorted, 1, Len(sorted) - 1), d), sorted[Len(sorted)])

RECURSIVE SortByTime(_)
SortByTime(seq) ==
    IF seq = <<>> THEN <<>>
    ELSE Insert(SortByTime(SubSeq(seq, 1, Len(seq) - 1)), seq[Len(seq)])

\* line 139
SortMatches ==
    /\ pc = "fetch"
    /\ i > Len(match_ids)
    /\ match_datas' = SortByTime(match_datas)
    /\ pc' = "print"
    /\ UNCHANGED <<gatewayVars, driverVars, fault, name, match_ids, i, fetched,
                   longest_team_name, output, j, statVars, query>>

\* the number of leading matches format_for can print
RECURSIVE Printable(_, _)
Printable(seq, t) ==
    IF seq = <<>> THEN 0
    ELSE IF format_for_error(Head(seq), t) # "" THEN 0
    ELSE 1 + Printable(Tail(seq), t)

\* lines 141-155: the match lines, then the fresh counters
PrintMatches ==
    /\ pc = "print"
    /\ output' = output \o [k \in 1..Printable(match_datas, team_id) |-> "match"]
    /\ IF Printable(match_datas, team_id) < Len(match_datas)
       THEN Abort(format_for_error(match_datas[Printable(match_datas, team_id) + 1],
                                   team_id))
       ELSE pc' = "aggregate" /\ UNCHANGED fault
    /\ UNCHANGED <<gatewayVars, driverVars, name, match_ids, i, fetched, match_datas,
                   longest_team_name, j, statVars, query>>

Min(a, b) == IF a < b THEN a ELSE b

\* mutant of IsCloseGame: one score at round 12 is enough
IsCloseGameMax(scores) == Max(scores[1], scores[2]) >= CLOSE_GAME_START

\* line 167: min(*m.scores) >= CLOSE_GAME_START
IsCloseGame(scores) == Min(scores[1], scores[2]) >= CLOSE_GAME_START

Inc(counter, key) == [counter EXCEPT ![key] = @ + 1]
\* mutant of Add: the list of the map is replaced, not appended to
AddReplacing(lists, key, id) == [lists EXCEPT ![key] = <<id>>]
Add(lists, key, id) == [lists EXCEPT ![key] = Append(@, id)]

\* lines 157-169: one iteration of the aggregation loop
Aggregate ==
    /\ pc = "aggregate"
    /\ j <= Len(match_datas)
    /\ LET m   == match_datas[j]
           map == m.map
           r   == result_for(m, team_id)
       IN  /\ played' = Inc(played, map)
           /\ picks' = IF m.team_ids[1] = team_id THEN Inc(picks, map) ELSE picks
           /\ IF r.raised
              THEN /\ Abort(r.error)
                   /\ UNCHANGED <<j, wins, draws, losses, close_games, close_games_per_map>>
              ELSE /\ wins'   = IF r.value = "WIN"  THEN Add(wins, map, m.id)   ELSE wins
                   /\ draws'  = IF r.value = "DRAW" THEN Add(draws, map, m.id)  ELSE draws
                   /\ losses' = IF r.value = "LOSS" THEN Add(losses, map, m.id) ELSE losses
                   /\ close_games' = IF IsCloseGame(m.scores)
                                     THEN Append(close_games, m.id) ELSE close_games
                   /\ close_games_per_map' = IF IsCloseGame(m.scores)
                                             THEN Inc(close_games_per_map, map)
                                             ELSE close_games_per_map
                   /\ j' = j + 1
                   /\ UNCHANGED <<pc, fault>>
    /\ UNCHANGED <<gatewayVars, driverVars, name, match_ids, i, fetched, match_datas,
                   longest_team_name, output, query>>

\* mutant of Report: the tables are printed before the loop has ended
ReportEarly ==
    /\ pc = "aggregate"
    /\ output' = Append(output, "stats")
    /\ pc' = "done"
    /\ UNCHANGED <<gatewayVars, driverVars, fault, name, match_ids, i, fetched, match_datas,
                   longest_team_name, j, statVars, query>>

\* lines 171-209: the statistic tables
Report ==
    /\ pc = "aggregate"
    /\ j > Len(match_datas)
    /\ output' = Append(output, "stats")
    /\ pc' = "done"
    /\ UNCHANGED <<gatewayVars, driverVars, fault, name, match_ids, i, fetched, match_datas,
                   longest_team_name, j, statVars, query>>

Init ==
    /\ cache = EmptyCache /\ now = 0
    /\ call = NoCall /\ returned = [p \in Paths |-> NoValue]
    /\ InitRun("start")
    /\ query = NoQuery

Next == GetTeam \/ FetchMatch \/ SortMatches \/ PrintMatches \/ Aggregate \/ Report

Spec == Init /\ [][Next]_vars

\* ------------------------------------------------------------ the cache driver
\* get_with_cache called for any path at any time, against an upstream that may
\* answer anything: the script run again and again by its operator.
CachePaths == {TeamPath, MatchPath(1)}
CacheDocs  == {TeamPayload({}, Listing(0)), TeamPayload({}, Listing(1))}
CacheBodies ==
    { Body(d, pad) : d \in CacheDocs, pad \in {0, 1} } \cup {Body(NotJson, 0)}
CacheResponses ==
    { Response(HTTP_OK, b) : b \in CacheBodies }
    \cup { Response(st, Body(NotJson, 0)) : st \in Statuses \ {HTTP_OK} }

NoResponse == [status_code |-> 0, content |-> Body(NotJson, 0)]

\* datetime.now() moves on by a day
Tick ==
    /\ now < MaxClock
    /\ now' = now + 1
    /\ UNCHANGED <<cache, driverVars, runVars, query>>

\* one call of get_with_cache; `call` keeps what the call saw and did
Call(path, resp) ==
    LET g == GetWithCache(cache, now, path, resp)
    IN  /\ cache' = g.files
        /\ call' = [made |-> TRUE, path |-> path, before |-> cache[path], at |-> now,
                    resp |-> IF g.requests = 0 THEN NoResponse ELSE resp,
                    requests |-> g.requests, raised |-> g.raised, value |-> g.value,
                    prev |-> returned[path]]
        /\ returned' = [returned EXCEPT ![path] = g.value]
        /\ UNCHANGED <<now, runVars, query>>

CallGetWithCache == \E path \in CachePaths : \E resp \in CacheResponses : Call(path, resp)

InitCache ==
    /\ cache = EmptyCache /\ now = 0
    /\ call = NoCall /\ returned = [p \in Paths |-> NoValue]
    /\ InitRun("idle")
    /\ query = NoQuery

NextCache == Tick \/ CallGetWithCache

SpecCache == InitCache /\ [][NextCache]_vars

\* ------------------------------------------------------------ the outcome queries
\* Every MatchData with two teams and two scores, queried for every team id.
MaxScore == 2
QueryScores == 0..MaxScore
MatchRecords(lineups) ==
    { MatchData(1, 1, "Ascent", 1, <<"Alpha", "Bravo11">>, ids, <<x, y>>) :
        ids \in lineups, x \in QueryScores, y \in QueryScores }

TwoTeams == { ids \in Teams \X Teams : ids[1] # ids[2] }
OneTeam  == { ids \in Teams \X Teams : ids[1] = ids[2] }

NotCalled == [called |-> FALSE]
Called(r) == [called |-> TRUE, raised |-> r.raised, error |-> r.error, value |-> r.value]

NewQuery(mm, t) ==
    [made |-> TRUE, m |-> mm, t |-> t,
     result_for |-> NotCalled, score_for |-> NotCalled, score_for_other |-> NotCalled,
     result_for_0 |-> NotCalled, result_for_1 |-> NotCalled]

InitMatch ==
    /\ cache = EmptyCache /\ now = 0
    /\ call = NoCall /\ returned = [p \in Paths |-> NoValue]
    /\ InitRun("idle")
    /\ \/ \E mm \in MatchRecords(TwoTeams) : \E t \in Teams : query = NewQuery(mm, t)
       \/ \E mm \in MatchRecords(OneTeam) : \E t \in Teams : query = NewQuery(mm, t)

\* m.result_for(t)
QueryResultFor ==
    /\ ~query.result_for.called
    /\ query' = [query EXCEPT !.result_for = Called(result_for(query.m, query.t))]
    /\ UNCHANGED <<gatewayVars, driverVars, runVars>>

\* m.score_for(t)
QueryScoreFor ==
    /\ ~query.score_for.called
    /\ query' = [query EXCEPT !.score_for = Called(score_for(query.m, query.t))]
    /\ UNCHANGED <<gatewayVars, driverVars, runVars>>

\* m.score_for_other(t)
QueryScoreForOther ==
    /\ ~query.score_for_other.called
    /\ query' = [query EXCEPT
                    !.score_for_other = Called(score_for_other(query.m, query.t))]
    /\ UNCHANGED <<gatewayVars, driverVars, runVars>>

\* m.result_for(m.team_ids[0]) and m.result_for(m.team_ids[1])
QueryBothTeams ==
    /\ ~query.result_for_0.called
    /\ query' = [query EXCEPT
                    !.result_for_0 = Called(result_for(query.m, query.m.team_ids[1])),
                    !.result_for_1 = Called(result_for(query.m, query.m.team_ids[2]))]
    /\ UNCHANGED <<gatewayVars, driverVars, runVars>>

NextMatch == QueryResultFor \/ QueryScoreFor \/ QueryScoreForOther \/ QueryBothTeams

SpecMatch == InitMatch /\ [][NextMatch]_vars

\* ------------------------------------------------------------ properties
\* the age the cache file had when the driver's call was made
CallAge == call.at - call.before.mtime

\* C1 (SpecCache): a call made while the path's file is less than a day old
\* issues no HTTP request and leaves the file as it was; when the call before
\* it for the same path returned a value, this call returns the same value.
CacheHit ==
    (call.made /\ call.before.exists /\ CallAge < FRESHNESS_DAYS) =>
        /\ call.requests = 0
        /\ cache[call.path] = call.before
        /\ (call.prev # NoValue => ~call.raised /\ call.value = call.prev)

\* C1 witness: a second call within the window answered from a padded file
CacheHitWitness ==
    /\ call.made /\ call.before.exists /\ CallAge < FRESHNESS_DAYS
    /\ call.prev # NoValue /\ call.value = call.prev
    /\ call.before.content.pad = 1
    /\ call.requests = 0

\* C2 (SpecCache): a call made when the path's file is a day old or older
\* makes exactly one GET; on a 200 response the file becomes the response
\* body with the time of the call as its mtime, and the value returned is the
\* JSON of that body, not the old content.
CacheRefresh ==
    (call.made /\ call.before.exists /\ CallAge >= FRESHNESS_DAYS) =>
        /\ call.requests = 1
        /\ (call.resp.status_code = HTTP_OK =>
               /\ cache[call.path] = File(call.resp.content, call.at)
               /\ (IsJson(call.resp.content) =>
                      ~call.raised /\ call.value = ParseJson(call.resp.content)))

\* C2 witness: a file exactly one day old replaced by a different document
CacheRefreshWitness ==
    /\ call.made /\ call.before.exists /\ CallAge = FRESHNESS_DAYS
    /\ call.requests = 1 /\ call.resp.status_code = HTTP_OK
    /\ IsJson(call.resp.content) /\ IsJson(call.before.content)
    /\ ParseJson(call.resp.content) # ParseJson(call.before.content)
    /\ call.value = ParseJson(call.resp.content)
    /\ cache[call.path].mtime = call.at

\* C3 (SpecCache): a call that goes to the network (no file, or a stale one)
\* and gets a status other than 200 makes exactly one request, raises,
\* returns nothing and leaves the path's file exactly as it was.
FailedFetch ==
    (/\ call.made
     /\ (~call.before.exists \/ CallAge >= FRESHNESS_DAYS)
     /\ call.resp.status_code # HTTP_OK) =>
        /\ call.requests = 1
        /\ call.raised
        /\ call.value = NoValue
        /\ cache[call.path] = call.before

\* C3 witness: a failed refresh of a stale file, which keeps its old content
FailedFetchWitness ==
    /\ call.made /\ call.before.exists /\ CallAge >= FRESHNESS_DAYS
    /\ call.requests = 1 /\ call.resp.status_code # HTTP_OK
    /\ call.raised
    /\ cache[call.path] = call.before

\* C4 (SpecMatch): for a team id that is neither of the match's two team ids,
\* result_for, score_for and score_for_other all raise, whatever the scores.
OutcomePrecondition ==
    (query.made /\ ~Member(query.t, query.m.team_ids)) =>
        /\ (query.result_for.called => query.result_for.raised)
        /\ (query.score_for.called => query.score_for.raised)
        /\ (query.score_for_other.called => query.score_for_other.raised)

Outcomes == {"WIN", "DRAW", "LOSS"}

\* result_for of both teams is an outcome, LOSS for one exactly when WIN for
\* the other, DRAW for one exactly when DRAW for the other
Antisymmetric ==
    /\ ~query.result_for_0.raised /\ query.result_for_0.value \in Outcomes
    /\ ~query.result_for_1.raised /\ query.result_for_1.value \in Outcomes
    /\ (query.result_for_0.value = "LOSS" <=> query.result_for_1.value = "WIN")
    /\ (query.result_for_0.value = "DRAW" <=> query.result_for_1.value = "DRAW")

\* C5 as stated (SpecMatch): for every pair of team ids and every pair of
\* scores the outcomes of the two teams are antisymmetric.
OutcomeAntisymmetry ==
    (query.made /\ query.result_for_0.called) => Antisymmetric

\* C5 amended (SpecMatch): for every match whose two team ids differ and
\* every pair of scores the outcomes of the two teams are antisymmetric.
OutcomeAntisymmetryDistinct ==
    (/\ query.made /\ query.result_for_0.called
     /\ query.m.team_ids[1] # query.m.team_ids[2]) => Antisymmetric

\* C5 witness: two different teams, the first lost and the second won
OutcomeAntisymmetryWitness ==
    /\ query.made /\ query.result_for_0.called
    /\ query.m.team_ids[1] # query.m.team_ids[2]
    /\ query.result_for_0.value = "LOSS" /\ query.result_for_1.value = "WIN"

\* the matches the aggregation loop has processed
Processed == 1..(j - 1)

OutcomeLists == <<wins, draws, losses>>

\* the (outcome list, map) places that hold the id
Places(id) ==
    { <<o, mp>> \in (1..3) \X MapKeys : Member(id, OutcomeLists[o][mp]) }

\* C6 (Spec): in every state of the aggregation, for every map played[map] is
\* the sum of the lengths of wins[map], draws[map] and losses[map], and the id
\* of each processed match is in exactly one of the three lists, under the
\* match's own map.
AggregationTotals ==
    /\ \A mp \in MapKeys :
          played[mp] = Len(wins[mp]) + Len(draws[mp]) + Len(losses[mp])
    /\ \A k \in Processed :
          match_datas[k].id # None =>
              /\ Cardinality(Places(match_datas[k].id)) = 1
              /\ \E o \in 1..3 : <<o, match_datas[k].map>> \in Places(match_datas[k].id)

\* C6 witness: two matches on one map aggregated, one won and one not
AggregationTotalsWitness ==
    /\ pc = "done" /\ j = 3
    /\ match_datas[1].map = match_datas[2].map
    /\ played[match_datas[1].map] = 2
    /\ Len(wins[match_datas[1].map]) = 1

\* both scores reached round 12
BothReached12(scores) == scores[1] >= 12 /\ scores[2] >= 12

\* C7 (Spec): the id of a processed match is in close_games exactly when the
\* smaller of its two scores is at least 12, and close_games_per_map[map] is
\* the number of such matches processed on the map.
CloseGameClassification ==
    /\ \A k \in Processed :
          match_datas[k].id # None =>
              (Member(match_datas[k].id, close_games)
                   <=> BothReached12(match_datas[k].scores))
    /\ \A mp \in MapKeys :
          close_games_per_map[mp] =
              Cardinality({ k \in Processed : /\ match_datas[k].map = mp
                                              /\ BothReached12(match_datas[k].scores) })
    /\ Len(close_games) =
          Cardinality({ k \in Processed : BothReached12(match_datas[k].scores) })

\* C7 witness: a 16-11 match left out and a 16-12 match counted
CloseGameWitness ==
    /\ pc = "done" /\ j = 3
    /\ match_datas[1].scores = <<16, 11>> /\ match_datas[2].scores = <<16, 12>>
    /\ close_games = <<match_datas[2].id>>

RECURSIVE Total(_, _)
Total(counter, keys) ==
    IF keys = {} THEN 0
    ELSE LET mp == CHOOSE x \in keys : TRUE
         IN  counter[mp] + Total(counter, keys \ {mp})

\* the fetched payloads whose result is finalized
Finalized == { k \in 1..Len(fetched) : fetched[k].resultLocked = "true" }

\* the run stopped while extracting the payload it had just fetched
StoppedOnPayload == pc = "aborted" /\ i <= Len(match_ids) /\ Len(fetched) = i

\* C8 (Spec): a fetched payload whose resultLocked is false never stops the
\* run, whatever fields it lacks, and yields no MatchData, so it reaches no
\* counter; the MatchData list holds one record per payload with the flag
\* true, each aggregated match adds exactly one played count, and at the end
\* of a run the played counts add up to the number of payloads with the flag
\* true.
AbsenceFiltering ==
    /\ StoppedOnPayload => fetched[i].resultLocked # "false"
    /\ Len(match_datas) <= Cardinality(Finalized)
    /\ pc # "aborted" => Len(match_datas) = Cardinality(Finalized)
    /\ Total(played, MapKeys) = j - 1
    /\ j - 1 <= Len(match_datas)
    /\ pc = "done" => Total(played, MapKeys) = Cardinality(Finalized)

\* C8 witness: a run that fetched an unfinalized payload with no other field
\* and a finalized one, and counted one match played
AbsenceFilteringWitness ==
    /\ pc = "done" /\ Len(fetched) = 2
    /\ fetched[1].resultLocked = "false" /\ fetched[1].missing = MatchFields
    /\ fetched[2].resultLocked = "true"
    /\ Total(played, MapKeys) = 1

MissingFieldIsFatal ==
    /\ output # <<>> => name # NoneStr
    /\ \A k \in 1..Len(match_datas) :
          /\ match_datas[k].id # None
          /\ match_datas[k].map # NoneStr
          /\ match_datas[k].match_group # None
          /\ Len(match_datas[k].team_names) = 2
          /\ Len(match_datas[k].team_ids) = 2
          /\ Len(match_datas[k].scores) = 2

====
